---- MODULE Spec2Model ----
(***************************************************************************)
(* Autonomous Aftersales OS (src/app.py): the Streamlit script `main` as a *)
(* state machine.  One script run is a sequence of steps (sidebar,         *)
(* simulator, Sentinel, Mechanic, Concierge, customer interface,           *)
(* manufacturing feedback, render); st.session_state is the state that     *)
(* survives from one run to the next.                                      *)
(*                                                                         *)
(* Sensor values are integers in tenths of the unit (110.0 C is 1100,      *)
(* 8.5 G is 85, 10.5 V is 105).  Python values that may be None or of      *)
(* several types are records tagged with a `type` field.  A text is a      *)
(* sequence of tokens (strings); the empty text "" is << >>.               *)
(***************************************************************************)
EXTENDS Integers, Sequences, FiniteSets, TLC

(************************* Python values ***********************************)
None == [type |-> "None"]
Str(t) == [type |-> "str", value |-> t]
Bool(b) == [type |-> "bool", value |-> b]
Dict(r) == [type |-> "dict", value |-> r]
List(s) == [type |-> "list", value |-> s]
JSONDecodeError == [type |-> "JSONDecodeError"]

\* Python truthiness of a tagged value (bool(v)).
Truthy(v) ==
    CASE v.type = "None" -> FALSE
      [] v.type = "bool" -> v.value
      [] v.type = "str" -> v.value # << >>
      [] v.type = "dict" -> DOMAIN v.value # {}
      [] v.type = "list" -> v.value # << >>
      [] OTHER -> TRUE

\* Python `a or b`.
Or(a, b) == IF Truthy(a) THEN a ELSE b

Max(a, b) == IF a >= b THEN a ELSE b

(************************* bounds and input sets ***************************)
\* Largest absolute noise draw, in tenths, of the boundary grid.
NoiseMax == 1
\* Script runs (readings generated) explored per behaviour.
MaxRuns == 2
\* Readings generated per behaviour of the history specification: enough for
\* the window of history_size samples to fill and drop its oldest sample twice.
MaxTicks == 62

\* history_size default of update_sensor_history.
history_size == 60

Reading(t, v, u) == [temp |-> t, vibration |-> v, voltage |-> u]

\* Quick presets (Healthy, Warning, Critical); the sliders start at Healthy.
PresetHealthy == Reading(750, 20, 132)
PresetWarning == Reading(1000, 75, 118)
PresetCritical == Reading(1150, 90, 100)
Presets == {PresetHealthy, PresetWarning, PresetCritical}

\* Slider positions explored by the specifications of the whole pipeline: the
\* presets, and one signal critical at a time.
SliderBases == Presets \cup {Reading(750, 90, 132), Reading(750, 20, 100)}
\* Noise draws (temperature, vibration, voltage) of those specifications.
NoiseDraws == {<<0, 0, 0>>, <<1, 1, -1>>}

\* Slider positions around every threshold and floor, for the single-run grid.
GridBases ==
    {Reading(t, v, u) : t \in {500, 950, 1000, 1100, 1150}, v \in {0, 70, 85, 90},
                        u \in {80, 100, 105, 115, 132}}
GridNoise ==
    {<<a, b, c>> : a \in -NoiseMax..NoiseMax, b \in -NoiseMax..NoiseMax,
                   c \in -NoiseMax..NoiseMax}

(************************* Signal simulator ********************************)
\* Mutant: baseline plus noise, without the floors.
generate_sensor_data_Unfloored(base_temp, base_vibration, base_voltage, noise) ==
    Reading(base_temp + noise[1], base_vibration + noise[2], base_voltage + noise[3])

\* generate_sensor_data: baseline plus the three noise draws, floored.
generate_sensor_data(base_temp, base_vibration, base_voltage, noise) ==
    Reading(Max(500, base_temp + noise[1]),
            Max(0, base_vibration + noise[2]),
            Max(80, base_voltage + noise[3]))

\* The "keep only last N samples" slice s[-n:].
LastN(s, n) == IF Len(s) > n THEN SubSeq(s, Len(s) - n + 1, Len(s)) ELSE s

\* update_sensor_history: append to the four series, then trim each.
\* Mutant: the trim keeps the first history_size samples ([:history_size]).
update_sensor_history_KeepsOldest(history, temp, vibration, voltage, now) ==
    LET appended == [timestamps |-> Append(history.timestamps, now),
                     temperatures |-> Append(history.temperatures, temp),
                     vibrations |-> Append(history.vibrations, vibration),
                     voltages |-> Append(history.voltages, voltage)]
    IN  [key \in DOMAIN appended |->
             IF Len(appended[key]) > history_size
             THEN SubSeq(appended[key], 1, history_size) ELSE appended[key]]

update_sensor_history(history, temp, vibration, voltage, now) ==
    LET appended == [timestamps |-> Append(history.timestamps, now),
                     temperatures |-> Append(history.temperatures, temp),
                     vibrations |-> Append(history.vibrations, vibration),
                     voltages |-> Append(history.voltages, voltage)]
    IN  [key \in DOMAIN appended |-> LastN(appended[key], history_size)]

EmptyHistory ==
    [timestamps |-> << >>, temperatures |-> << >>, vibrations |-> << >>,
     voltages |-> << >>]

(************************* Sentinel (check_thresholds) *********************)
\* One anomaly message: severity prefix, signal, printed value, threshold.
Finding(sev, signal, value, threshold) ==
    [severity |-> sev, signal |-> signal, value |-> value, threshold |-> threshold]

VerdictStart == [is_critical |-> FALSE, anomalies |-> << >>]

\* Mutant: the critical comparison includes the threshold itself.
TempCheck_Inclusive(s, temp) ==
    IF temp >= 1100
    THEN [is_critical |-> TRUE,
          anomalies |-> Append(s.anomalies,
                               Finding("CRITICAL", "Engine Temperature", temp, 1100))]
    ELSE IF temp > 950
    THEN [s EXCEPT !.anomalies =
              Append(@, Finding("WARNING", "Engine Temperature", temp, 950))]
    ELSE s

TempCheck(s, temp) ==
    IF temp > 1100
    THEN [is_critical |-> TRUE,
          anomalies |-> Append(s.anomalies,
                               Finding("CRITICAL", "Engine Temperature", temp, 1100))]
    ELSE IF temp > 950
    THEN [s EXCEPT !.anomalies =
              Append(@, Finding("WARNING", "Engine Temperature", temp, 950))]
    ELSE s

VibrationCheck(s, vibration) ==
    IF vibration > 85
    THEN [is_critical |-> TRUE,
          anomalies |-> Append(s.anomalies,
                               Finding("CRITICAL", "Vibration Level", vibration, 85))]
    ELSE IF vibration > 70
    THEN [s EXCEPT !.anomalies =
              Append(@, Finding("WARNING", "Vibration Level", vibration, 70))]
    ELSE s

\* Mutant: the critical voltage branch appends its finding but leaves the flag.
VoltageCheck_NoFlag(s, voltage) ==
    IF voltage < 105
    THEN [s EXCEPT !.anomalies =
              Append(@, Finding("CRITICAL", "Battery Voltage", voltage, 105))]
    ELSE IF voltage < 115
    THEN [s EXCEPT !.anomalies =
              Append(@, Finding("WARNING", "Battery Voltage", voltage, 115))]
    ELSE s

VoltageCheck(s, voltage) ==
    IF voltage < 105
    THEN [is_critical |-> TRUE,
          anomalies |-> Append(s.anomalies,
                               Finding("CRITICAL", "Battery Voltage", voltage, 105))]
    ELSE IF voltage < 115
    THEN [s EXCEPT !.anomalies =
              Append(@, Finding("WARNING", "Battery Voltage", voltage, 115))]
    ELSE s

\* Mutant: the vibration check runs before the temperature check.
check_thresholds_VibrationFirst(temp, vibration, voltage) ==
    VoltageCheck(TempCheck(VibrationCheck(VerdictStart, vibration), temp), voltage)

check_thresholds(temp, vibration, voltage) ==
    VoltageCheck(VibrationCheck(TempCheck(VerdictStart, temp), vibration), voltage)

(************************* text-generation capability **********************)
\* What model.generate_content(...) followed by response.text can do: raise,
\* give a falsy response object, or give a text.
Raises == [kind |-> "raises", text |-> << >>]
FalsyResponse == [kind |-> "falsy", text |-> << >>]
Text(t) == [kind |-> "text", text |-> t]

\* JSON documents a response may carry, each one token of a text.
FullDoc == "{\"Root_Cause\": \"Coolant pump wear\", \"Defect_Cluster_ID\": \"CLUSTER_017\", \"Design_Improvement_Suggestion\": \"Use a sealed bearing\"}"
PartialDoc == "{\"Root_Cause\": \"Coolant pump wear\"}"
EmptyDoc == "{}"
ListDoc == "[\"Coolant pump wear\"]"
Whitespace == {"\n", " "}
\* The markdown code-fence marker (three backticks), one token.
Fence == "<fence>"

\* Responses to the diagnosis and customer-message prompts.
ProseResponses ==
    {Raises, FalsyResponse, Text(<< >>), Text(<<"Generated text.">>)}

\* Responses to the manufacturing prompt.
JsonResponses ==
    {Raises, FalsyResponse, Text(<< >>), Text(<<"Here is the analysis.">>),
     Text(<<FullDoc>>), Text(<<Fence, "json", "\n", FullDoc, "\n", Fence>>),
     Text(<<Fence, "\n", FullDoc, "\n", Fence>>),
     Text(<<PartialDoc>>), Text(<<EmptyDoc>>), Text(<<ListDoc>>)}

\* str.replace(old, "") for a one-token old.
RECURSIVE RemoveToken(_, _)
RemoveToken(s, tok) ==
    IF s = << >> THEN << >>
    ELSE IF Head(s) = tok THEN RemoveToken(Tail(s), tok)
    ELSE <<Head(s)>> \o RemoveToken(Tail(s), tok)

\* str.replace(a + b, "") for a two-token old (the fence followed by json).
RECURSIVE RemovePair(_, _, _)
RemovePair(s, a, b) ==
    IF Len(s) < 2 THEN s
    ELSE IF s[1] = a /\ s[2] = b THEN RemovePair(Tail(Tail(s)), a, b)
    ELSE <<Head(s)>> \o RemovePair(Tail(s), a, b)

RECURSIVE LStrip(_)
LStrip(s) ==
    IF s # << >> /\ Head(s) \in Whitespace THEN LStrip(Tail(s)) ELSE s

RECURSIVE RStrip(_)
RStrip(s) ==
    IF s # << >> /\ s[Len(s)] \in Whitespace
    THEN RStrip(SubSeq(s, 1, Len(s) - 1)) ELSE s

\* str.strip()
strip(s) == RStrip(LStrip(s))

\* json.loads of a text: the value of its single document, else JSONDecodeError.
json_loads(s) ==
    LET body == strip(s)
    IN  IF Len(body) # 1 THEN JSONDecodeError
        ELSE CASE body[1] = FullDoc ->
                      Dict([Root_Cause |-> "Coolant pump wear",
                            Defect_Cluster_ID |-> "CLUSTER_017",
                            Design_Improvement_Suggestion |-> "Use a sealed bearing"])
               [] body[1] = PartialDoc -> Dict([Root_Cause |-> "Coolant pump wear"])
               [] body[1] = EmptyDoc -> Dict([k \in {} |-> ""])
               [] body[1] = ListDoc -> List(<<"Coolant pump wear">>)
               [] OTHER -> JSONDecodeError

(************************* Stage A: Mechanic *******************************)
\* The four fallback diagnoses (their leading emoji is left out).
DiagOverheating == Str(<<"Diagnosis: Engine overheating detected. Primary suspect: Failed thermostat or water pump failure. Recommend immediate inspection of cooling system. Risk Level: CRITICAL">>)
DiagVibration == Str(<<"Diagnosis: Excessive vibration indicates mechanical imbalance. Likely causes: Worn engine mounts, bearing issues, or fuel injection problem. Recommend alignment check and engine inspection.">>)
DiagBattery == Str(<<"Diagnosis: Battery voltage critically low. Suspect: Alternator malfunction or battery cell degradation. Vehicle electrical systems at risk. Recommend battery/alternator test.">>)
DiagGeneric == Str(<<"Diagnosis: Multiple system anomalies detected. Recommend comprehensive diagnostic scan and OBD-II analysis.">>)

\* Mutant: the vibration rule is tried before the temperature rule.
mock_mechanic_diagnosis_VibrationFirst(temp, vibration, voltage, anomalies) ==
    IF vibration > 85 THEN DiagVibration
    ELSE IF temp > 1100 THEN DiagOverheating
    ELSE IF voltage < 105 THEN DiagBattery
    ELSE DiagGeneric

\* Mutant: the battery rule fires from the warning threshold (11.5 V) on.
mock_mechanic_diagnosis_BatteryAtWarning(temp, vibration, voltage, anomalies) ==
    IF temp > 1100 THEN DiagOverheating
    ELSE IF vibration > 85 THEN DiagVibration
    ELSE IF voltage < 115 THEN DiagBattery
    ELSE DiagGeneric

\* Mutant: the overheating rule fires from the warning threshold (95 C) on.
mock_mechanic_diagnosis_OverheatAtWarning(temp, vibration, voltage, anomalies) ==
    IF temp > 950 THEN DiagOverheating
    ELSE IF vibration > 85 THEN DiagVibration
    ELSE IF voltage < 105 THEN DiagBattery
    ELSE DiagGeneric

mock_mechanic_diagnosis(temp, vibration, voltage, anomalies) ==
    IF temp > 1100 THEN DiagOverheating
    ELSE IF vibration > 85 THEN DiagVibration
    ELSE IF voltage < 105 THEN DiagBattery
    ELSE DiagGeneric

\* call_gemini_mechanic, given st.session_state.gemini_client_ready and what the
\* capability does when called.
call_gemini_mechanic(temp, vibration, voltage, anomalies, ready, response) ==
    IF ~ready THEN mock_mechanic_diagnosis(temp, vibration, voltage, anomalies)
    ELSE IF response.kind = "raises"
    THEN mock_mechanic_diagnosis(temp, vibration, voltage, anomalies)
    ELSE IF response.kind = "falsy"
    THEN mock_mechanic_diagnosis(temp, vibration, voltage, anomalies)
    ELSE Str(response.text)

(************************* Stage B: Concierge ******************************)
\* Mutant: the message quotes the diagnosis.
mock_customer_message_QuotesDiagnosis(diagnosis, customer_name) ==
    Str(<<"Hi ", customer_name, ",\n\nWe've detected an issue with your vehicle: ">> \o diagnosis.value)

mock_customer_message(diagnosis, customer_name) ==
    Str(<<"Hi ", customer_name, ",\n\nWe've detected an issue with your vehicle during our proactive monitoring. Our technicians have identified a potential problem that needs attention soon. We'd like to schedule a service appointment at your earliest convenience. We're here to help!">>)

call_gemini_concierge(diagnosis, customer_name, ready, response) ==
    IF ~ready THEN mock_customer_message(diagnosis, customer_name)
    ELSE IF response.kind = "raises"
    THEN mock_customer_message(diagnosis, customer_name)
    ELSE IF response.kind = "falsy"
    THEN mock_customer_message(diagnosis, customer_name)
    ELSE Str(response.text)

(************************* Stage C: Manufacturing feedback *****************)
\* Mutant: the cluster id is chosen at the critical threshold, not at 100.
mock_manufacturing_feedback_ClusterAt110(temp, vibration, voltage) ==
    Dict([Root_Cause |->
              IF temp > 1000 THEN "Thermal management system degradation"
              ELSE "Electrical subsystem performance drift",
          Defect_Cluster_ID |->
              IF temp > 1100 THEN "CLUSTER_THERM_001" ELSE "CLUSTER_ELEC_002",
          Design_Improvement_Suggestion |->
              IF temp > 1000
              THEN "Upgrade coolant circulation pump capacity and add secondary thermal sensor redundancy"
              ELSE "Implement higher-capacity alternator and battery with integrated voltage regulation module"])

mock_manufacturing_feedback(temp, vibration, voltage) ==
    Dict([Root_Cause |->
              IF temp > 1000 THEN "Thermal management system degradation"
              ELSE "Electrical subsystem performance drift",
          Defect_Cluster_ID |->
              IF temp > 1000 THEN "CLUSTER_THERM_001" ELSE "CLUSTER_ELEC_002",
          Design_Improvement_Suggestion |->
              IF temp > 1000
              THEN "Upgrade coolant circulation pump capacity and add secondary thermal sensor redundancy"
              ELSE "Implement higher-capacity alternator and battery with integrated voltage regulation module"])

\* Mutant: only the fence that carries the json tag is dropped.
clean_response_text_TaggedFenceOnly(text) ==
    strip(RemovePair(text, Fence, "json"))

\* The clean-up of line 587: drop fence+json, drop the fence, strip.
clean_response_text(text) ==
    strip(RemoveToken(RemovePair(text, Fence, "json"), Fence))

\* Mutant: the handler of a raised call answers like the falsy response, "{}".
call_gemini_manufacturing_RaiseGivesEmpty(temp, vibration, voltage, anomalies, ready, response) ==
    IF ~ready THEN mock_manufacturing_feedback(temp, vibration, voltage)
    ELSE LET response_text ==
                 IF response.kind \in {"falsy", "raises"}
                 THEN <<EmptyDoc>> ELSE response.text
             parsed == json_loads(clean_response_text(response_text))
         IN  IF parsed = JSONDecodeError
             THEN mock_manufacturing_feedback(temp, vibration, voltage)
             ELSE parsed

call_gemini_manufacturing(temp, vibration, voltage, anomalies, ready, response) ==
    IF ~ready THEN mock_manufacturing_feedback(temp, vibration, voltage)
    ELSE IF response.kind = "raises"
    THEN mock_manufacturing_feedback(temp, vibration, voltage)
    ELSE LET response_text ==
                 IF response.kind = "falsy" THEN <<EmptyDoc>> ELSE response.text
             parsed == json_loads(clean_response_text(response_text))
         IN  IF parsed = JSONDecodeError
             THEN mock_manufacturing_feedback(temp, vibration, voltage)
             ELSE parsed

(************************* Service slots ***********************************)
\* strftime("%a, %b %d @ %I:%M %p") of a time in hours: weekday, day of the
\* year and hour; the year is not printed.
strftime(t) ==
    [a |-> (t \div 24) % 7, bd |-> (t \div 24) % 365, IMp |-> t % 24]

\* slot_time of loop index i: now + timedelta(hours=24*i).
slot_time(now, i) == now + 24 * i

\* Mutant: the loop runs over range(0, 5), so the first slot is now itself.
get_available_service_slots_FromZero(now) ==
    [i \in 1..5 |-> strftime(slot_time(now, i - 1))]

get_available_service_slots(now) ==
    [i \in 1..5 |-> strftime(slot_time(now, i))]

(************************* credential **************************************)
\* str.strip() of a credential: " " is the whitespace-only key.
key_strip(k) == IF k = " " THEN "" ELSE k

\* setup_gemini_api, given GEMINI_AVAILABLE and whether the "ping" probe returns.
setup_gemini_api(key, available, probe_ok) ==
    IF ~available THEN FALSE
    ELSE IF key # "" /\ key_strip(key) # "" THEN probe_ok
    ELSE FALSE

Keys == {"", " ", "key-1", "key-2"}

(************************* state *******************************************)
VARIABLES
    \* st.session_state
    api_key, gemini_client_ready, sensor_history, alert_triggered,
    diagnosis_result, customer_message, manufacturing_feedback, selected_slot,
    overrides,
    \* the environment: whether the SDK import succeeded, the clock (hours)
    GEMINI_AVAILABLE, now,
    \* the running script: position, widget results and locals of main
    pc, book_btn, current, is_critical, anomalies, diagnosis, customer_msg,
    mfg_feedback,
    \* observation of the latest run: functions called, what the capability
    \* answered, the diagnosis handed to the Concierge, the exception that
    \* ended the run; the readings generated so far; and the readings
    \* generated since sensor_history was last emptied
    calls, responses, concierge_arg, uncaught, runs, ticks

session ==
    <<api_key, gemini_client_ready, sensor_history, alert_triggered,
      diagnosis_result, customer_message, manufacturing_feedback, selected_slot,
      overrides>>
locals ==
    <<book_btn, current, is_critical, anomalies, diagnosis, customer_msg,
      mfg_feedback>>
vars == <<session, GEMINI_AVAILABLE, now, pc, locals, calls, responses,
          concierge_arg, uncaught, runs, ticks>>

\* initialize_session_state on a fresh session, before the first run.
initialize_session_state ==
    /\ api_key = ""
    /\ gemini_client_ready = FALSE
    /\ sensor_history = EmptyHistory
    /\ alert_triggered = Bool(FALSE)
    /\ diagnosis_result = None
    /\ customer_message = None
    /\ manufacturing_feedback = None
    /\ selected_slot = None
    /\ overrides = [k \in {} |-> 0]

\* The capability has not been called in this run.
Uncalled == [kind |-> "uncalled", text |-> << >>]
NoResponses ==
    [mechanic |-> Uncalled, concierge |-> Uncalled, manufacturing |-> Uncalled]

\* No local of main is bound.
LocalsUnbound ==
    /\ book_btn = FALSE
    /\ current = None
    /\ is_critical = None
    /\ anomalies = None
    /\ diagnosis = None
    /\ customer_msg = None
    /\ mfg_feedback = None

Init ==
    /\ initialize_session_state
    /\ GEMINI_AVAILABLE \in BOOLEAN
    /\ now = 0
    /\ pc = "idle"
    /\ LocalsUnbound
    /\ calls = << >>
    /\ responses = NoResponses
    /\ concierge_arg = None
    /\ uncaught = ""
    /\ runs = 0
    /\ ticks = 0

\* Mutant: the pipeline runs on a critical verdict only.
AnomalousCriticalOnly == is_critical.value

\* `if is_critical or anomalies:` of main.
Anomalous == is_critical.value \/ anomalies.value # << >>

(************************* the sidebar *************************************)
\* What started the run: a plain widget change, a credential edit, or a button.
Events ==
    {[kind |-> k, key |-> "", probe_ok |-> FALSE, preset |-> PresetHealthy] :
         k \in {"none", "fail", "reset", "book", "remind"}}
    \cup {[kind |-> "key", key |-> k, probe_ok |-> p, preset |-> PresetHealthy] :
              k \in Keys, p \in BOOLEAN}
    \cup {[kind |-> "preset", key |-> "", probe_ok |-> FALSE, preset |-> p] :
              p \in Presets}

\* Lines 635-655: the credential input.
CredentialInput(e) ==
    LET api_key_input == IF e.kind = "key" THEN e.key ELSE api_key
    IN  IF api_key_input # api_key
        THEN /\ api_key' = api_key_input
             /\ gemini_client_ready' =
                    IF api_key_input # ""
                    THEN setup_gemini_api(api_key_input, GEMINI_AVAILABLE, e.probe_ok)
                    ELSE gemini_client_ready
        ELSE UNCHANGED <<api_key, gemini_client_ready>>

\* Mutant: the "Reset System" loop leaves selected_slot out.
ResetSystemKeys_WithoutSlot ==
    {"diagnosis_result", "customer_message", "manufacturing_feedback",
     "alert_triggered"}

\* Line 705: the session keys the "Reset System" loop sets to None.
ResetSystemKeys ==
    {"diagnosis_result", "customer_message", "manufacturing_feedback",
     "selected_slot", "alert_triggered"}

\* The value of a session key after the sidebar handled event e.
AfterReset(e, key, value) ==
    IF e.kind = "reset" /\ key \in ResetSystemKeys THEN None ELSE value

\* Lines 631-731: the sidebar of one script run, started by one of the events
\* Evs while fewer than limit readings have been generated.  A button ends the
\* run with st.rerun(); the run that follows sees no event.
SidebarRun(Evs, limit) ==
    /\ pc \in {"idle", "rerun"}
    /\ runs < limit
    /\ \E e \in Evs :
        /\ pc = "rerun" => e.kind = "none"
        /\ CredentialInput(e)
        /\ sensor_history' = IF e.kind = "fail" THEN EmptyHistory ELSE sensor_history
        /\ ticks' = IF e.kind = "fail" THEN 0 ELSE ticks
        /\ diagnosis_result' = AfterReset(e, "diagnosis_result", diagnosis_result)
        /\ customer_message' = AfterReset(e, "customer_message", customer_message)
        /\ manufacturing_feedback' =
               AfterReset(e, "manufacturing_feedback", manufacturing_feedback)
        /\ selected_slot' = AfterReset(e, "selected_slot", selected_slot)
        /\ alert_triggered' = AfterReset(e, "alert_triggered", alert_triggered)
        /\ overrides' =
               IF e.kind = "preset"
               THEN [temp_override |-> e.preset.temp,
                     vibration_override |-> e.preset.vibration,
                     voltage_override |-> e.preset.voltage]
               ELSE overrides
        /\ pc' = IF e.kind \in {"fail", "reset", "preset"} THEN "rerun" ELSE "generate"
        /\ book_btn' = (e.kind = "book")
    /\ calls' = << >>
    /\ responses' = NoResponses
    /\ concierge_arg' = None
    /\ uncaught' = ""
    /\ UNCHANGED <<GEMINI_AVAILABLE, now, current, is_critical, anomalies,
                   diagnosis, customer_msg, mfg_feedback, runs>>

Sidebar == SidebarRun(Events, MaxRuns)

(************************* the tick ****************************************)
\* Lines 733-746: apply and delete the preset overrides, draw the reading,
\* append it to the history.
GenerateReading(Bases, Noises) ==
    /\ pc = "generate"
    /\ \E slider \in Bases, noise \in Noises :
        LET temp == IF "temp_override" \in DOMAIN overrides
                    THEN overrides.temp_override ELSE slider.temp
            vibration == IF "vibration_override" \in DOMAIN overrides
                         THEN overrides.vibration_override ELSE slider.vibration
            voltage == IF "voltage_override" \in DOMAIN overrides
                       THEN overrides.voltage_override ELSE slider.voltage
            r == generate_sensor_data(temp, vibration, voltage, noise)
        IN  /\ current' = r
            /\ sensor_history' =
                   update_sensor_history(sensor_history, r.temp, r.vibration,
                                         r.voltage, now + 1)
    /\ overrides' = [k \in {} |-> 0]
    /\ now' = now + 1
    /\ runs' = runs + 1
    /\ ticks' = ticks + 1
    /\ calls' = calls \o <<"generate_sensor_data", "update_sensor_history">>
    /\ pc' = "sentinel"
    /\ UNCHANGED <<api_key, gemini_client_ready, alert_triggered, diagnosis_result,
                   customer_message, manufacturing_feedback, selected_slot,
                   GEMINI_AVAILABLE, book_btn, is_critical, anomalies, diagnosis,
                   customer_msg, mfg_feedback, responses, concierge_arg, uncaught>>

\* Lines 748-750: the Sentinel.
Sentinel ==
    /\ pc = "sentinel"
    /\ LET verdict == check_thresholds(current.temp, current.vibration, current.voltage)
       IN  /\ is_critical' = Bool(verdict.is_critical)
           /\ anomalies' = List(verdict.anomalies)
           /\ alert_triggered' = Bool(verdict.is_critical)
    /\ calls' = Append(calls, "check_thresholds")
    /\ pc' = "mechanic"
    /\ UNCHANGED <<api_key, gemini_client_ready, sensor_history, diagnosis_result,
                   customer_message, manufacturing_feedback, selected_slot, overrides,
                   GEMINI_AVAILABLE, now, book_btn, current, diagnosis, customer_msg,
                   mfg_feedback, responses, concierge_arg, uncaught, runs, ticks>>

\* The calls a stage adds to the log: the stage, and the capability if it is used.
StageCalls(stage) ==
    IF gemini_client_ready THEN <<stage, "generate_content">> ELSE <<stage>>

\* Mutant: a diagnosis already in the session is kept.
store_diagnosis_KeepFirst(previous, new_diagnosis) ==
    IF previous = None THEN new_diagnosis ELSE previous

\* Line 860: st.session_state.diagnosis_result = diagnosis.
store_diagnosis(previous, new_diagnosis) == new_diagnosis

\* Lines 886-888: the diagnosis handed to the Concierge.
concierge_diagnosis(stored, local_diagnosis) == Or(stored, local_diagnosis)

\* Lines 857-866: the Mechanic (Stage A).
Mechanic(Responses) ==
    /\ pc = "mechanic"
    /\ IF Anomalous
       THEN \E response \in Responses :
               LET d == call_gemini_mechanic(current.temp, current.vibration,
                                             current.voltage, anomalies.value,
                                             gemini_client_ready, response)
               IN  /\ diagnosis' = d
                   /\ diagnosis_result' = store_diagnosis(diagnosis_result, d)
                   /\ calls' = calls \o StageCalls("call_gemini_mechanic")
                   /\ responses' =
                          IF gemini_client_ready
                          THEN [responses EXCEPT !.mechanic = response]
                          ELSE responses
       ELSE UNCHANGED <<diagnosis, diagnosis_result, calls, responses>>
    /\ pc' = "concierge"
    /\ UNCHANGED <<api_key, gemini_client_ready, sensor_history, alert_triggered,
                   customer_message, manufacturing_feedback, selected_slot, overrides,
                   GEMINI_AVAILABLE, now, book_btn, current, is_critical, anomalies,
                   customer_msg, mfg_feedback, concierge_arg, uncaught, runs, ticks>>

\* Lines 884-895: the Concierge (Stage B).
Concierge(Responses) ==
    /\ pc = "concierge"
    /\ IF Anomalous
       THEN \E response \in Responses :
               LET arg == concierge_diagnosis(diagnosis_result, diagnosis)
                   m == call_gemini_concierge(arg, "Valued Customer",
                                              gemini_client_ready, response)
               IN  /\ concierge_arg' = arg
                   /\ customer_msg' = m
                   /\ customer_message' = m
                   /\ calls' = calls \o StageCalls("call_gemini_concierge")
                   /\ responses' =
                          IF gemini_client_ready
                          THEN [responses EXCEPT !.concierge = response]
                          ELSE responses
       ELSE UNCHANGED <<concierge_arg, customer_msg, customer_message, calls,
                        responses>>
    /\ pc' = "customer"
    /\ UNCHANGED <<api_key, gemini_client_ready, sensor_history, alert_triggered,
                   diagnosis_result, manufacturing_feedback, selected_slot, overrides,
                   GEMINI_AVAILABLE, now, book_btn, current, is_critical, anomalies,
                   diagnosis, mfg_feedback, uncaught, runs, ticks>>

\* Lines 906-929: the customer interface; "Book Now" stores the slot the
\* select box returns, one of the slots generated in this run.
CustomerInterface ==
    /\ pc = "customer"
    /\ IF Anomalous
       THEN /\ calls' = Append(calls, "get_available_service_slots")
            /\ IF book_btn
               THEN \E i \in 1..5 :
                       selected_slot' = Str(get_available_service_slots(now)[i])
               ELSE UNCHANGED selected_slot
       ELSE UNCHANGED <<calls, selected_slot>>
    /\ pc' = "manufacturing"
    /\ UNCHANGED <<api_key, gemini_client_ready, sensor_history, alert_triggered,
                   diagnosis_result, customer_message, manufacturing_feedback,
                   overrides, GEMINI_AVAILABLE, now, book_btn, current, is_critical,
                   anomalies, diagnosis, customer_msg, mfg_feedback, responses,
                   concierge_arg, uncaught, runs, ticks>>

\* Lines 936-939: the manufacturing feedback (Stage C).
Manufacturing(Responses) ==
    /\ pc = "manufacturing"
    /\ IF Anomalous
       THEN \E response \in Responses :
               LET f == call_gemini_manufacturing(current.temp, current.vibration,
                                                  current.voltage, anomalies.value,
                                                  gemini_client_ready, response)
               IN  /\ mfg_feedback' = f
                   /\ manufacturing_feedback' = f
                   /\ calls' = calls \o StageCalls("call_gemini_manufacturing")
                   /\ responses' =
                          IF gemini_client_ready
                          THEN [responses EXCEPT !.manufacturing = response]
                          ELSE responses
       ELSE UNCHANGED <<mfg_feedback, manufacturing_feedback, calls, responses>>
    /\ pc' = "render"
    /\ UNCHANGED <<api_key, gemini_client_ready, sensor_history, alert_triggered,
                   diagnosis_result, customer_message, selected_slot, overrides,
                   GEMINI_AVAILABLE, now, book_btn, current, is_critical, anomalies,
                   diagnosis, customer_msg, concierge_arg, uncaught, runs, ticks>>

\* Lines 941-975: the feedback is rendered with mfg_feedback.get(...), which a
\* value that is no dict does not have; then the run ends and its locals go.
Render ==
    /\ pc = "render"
    /\ uncaught' = IF Anomalous /\ mfg_feedback.type # "dict"
                   THEN "AttributeError" ELSE ""
    /\ pc' = "idle"
    /\ book_btn' = FALSE
    /\ current' = None
    /\ is_critical' = None
    /\ anomalies' = None
    /\ diagnosis' = None
    /\ customer_msg' = None
    /\ mfg_feedback' = None
    /\ UNCHANGED <<session, GEMINI_AVAILABLE, now, calls, responses,
                   concierge_arg, runs, ticks>>

(************************* specifications **********************************)
\* Responses explored by the multi-run specification.
AppResponses == {Raises, Text(<< >>), Text(<<"Generated text.">>)}
AppJsonResponses == {Raises, Text(<<FullDoc>>)}

\* The application: any number of script runs (up to MaxRuns readings).
Next ==
    \/ Sidebar
    \/ GenerateReading(Presets, NoiseDraws)
    \/ Sentinel
    \/ Mechanic(AppResponses)
    \/ Concierge(AppResponses)
    \/ CustomerInterface
    \/ Manufacturing(AppJsonResponses)
    \/ Render

Spec == Init /\ [][Next]_vars

\* One script run with no credential (fallback mode), on every reading of the
\* boundary grid: the state after the sidebar of a first run.
InitGrid ==
    /\ initialize_session_state
    /\ GEMINI_AVAILABLE \in BOOLEAN
    /\ now = 0
    /\ pc = "generate"
    /\ LocalsUnbound
    /\ calls = << >>
    /\ responses = NoResponses
    /\ concierge_arg = None
    /\ uncaught = ""
    /\ runs = 0
    /\ ticks = 0

NextGrid ==
    \/ GenerateReading(GridBases, GridNoise)
    \/ Sentinel
    \/ Mechanic(ProseResponses)
    \/ Concierge(ProseResponses)
    \/ CustomerInterface
    \/ Manufacturing(JsonResponses)
    \/ Render

SpecGrid == InitGrid /\ [][NextGrid]_vars

\* One script run with the credential accepted or not, on the slider positions,
\* with everything the capability can answer: the state after the sidebar of a
\* run that followed a credential edit.
InitCapability ==
    /\ \/ /\ api_key = "key-1"
          /\ gemini_client_ready = TRUE
          /\ GEMINI_AVAILABLE = TRUE
       \/ /\ api_key = ""
          /\ gemini_client_ready = FALSE
          /\ GEMINI_AVAILABLE \in BOOLEAN
    /\ sensor_history = EmptyHistory
    /\ alert_triggered = Bool(FALSE)
    /\ diagnosis_result = None
    /\ customer_message = None
    /\ manufacturing_feedback = None
    /\ selected_slot = None
    /\ overrides = [k \in {} |-> 0]
    /\ now = 0
    /\ pc = "generate"
    /\ LocalsUnbound
    /\ calls = << >>
    /\ responses = NoResponses
    /\ concierge_arg = None
    /\ uncaught = ""
    /\ runs = 0
    /\ ticks = 0

NextCapability ==
    \/ GenerateReading(SliderBases, NoiseDraws)
    \/ Sentinel
    \/ Mechanic(ProseResponses)
    \/ Concierge(ProseResponses)
    \/ CustomerInterface
    \/ Manufacturing(JsonResponses)
    \/ Render

SpecCapability == InitCapability /\ [][NextCapability]_vars

\* The rolling history over many runs: no credential, the sliders moved on a
\* fixed schedule (the position of the run whose reading is the t-th, no two
\* of the first 105 positions alike, some in the warning band), no noise, and
\* "Simulate Failure" clicked at any time.
HistorySlider(t) == Reading(900 + 10 * (t % 7), 20 + (t % 5), 132 - (t % 3))
NoNoise == {<<0, 0, 0>>}
HistoryEvents == {e \in Events : e.kind \in {"none", "fail"}}

NextHistory ==
    \/ SidebarRun(HistoryEvents, MaxTicks)
    \/ GenerateReading({HistorySlider(now + 1)}, NoNoise)
    \/ Sentinel
    \/ Mechanic({Raises})
    \/ Concierge({Raises})
    \/ CustomerInterface
    \/ Manufacturing({Raises})
    \/ Render

SpecHistory == Init /\ [][NextHistory]_vars

(************************* properties **************************************)
\* The Sentinel has classified the reading of this run.
Classified == is_critical # None

CriticalFindings ==
    {i \in DOMAIN anomalies.value : anomalies.value[i].severity = "CRITICAL"}

\* C1: for every reading, is_critical is true iff at least one returned finding
\* is a CRITICAL finding, iff temp > 110 or vibration > 8.5 or voltage < 10.5.
C1_CriticalIffCriticalFinding ==
    Classified =>
        /\ is_critical.value <=> CriticalFindings # {}
        /\ is_critical.value <=>
               (current.temp > 1100 \/ current.vibration > 85 \/ current.voltage < 105)

\* A reading whose only critical signal is the voltage has been classified.
C1_Witness ==
    /\ Classified
    /\ is_critical.value
    /\ CriticalFindings # {}
    /\ current.temp <= 1100 /\ current.vibration <= 85 /\ current.voltage < 105

\* The severity the findings give a signal ("none" when it has no finding).
SeverityOf(signal) ==
    LET a == anomalies.value
        at == {i \in DOMAIN a : a[i].signal = signal}
    IN  IF at = {} THEN "none" ELSE a[CHOOSE i \in at : TRUE].severity

SignalRank(signal) ==
    CASE signal = "Engine Temperature" -> 1
      [] signal = "Vibration Level" -> 2
      [] signal = "Battery Voltage" -> 3

C3_HotReadingCriticalFirst ==
    (Classified /\ current.temp > 1100) =>
        /\ is_critical.value
        /\ Len(anomalies.value) >= 1
        /\ anomalies.value[1].severity = "CRITICAL"
        /\ anomalies.value[1].signal = "Engine Temperature"

\* A reading with all three signals critical has been classified.
C3_Witness ==
    /\ Classified
    /\ current.temp > 1100 /\ current.vibration > 85 /\ current.voltage < 105
    /\ Len(anomalies.value) = 3
    /\ anomalies.value[1].signal = "Engine Temperature"

\* The Mechanic has produced this run's diagnosis.
Diagnosed == diagnosis # None

\* C9: with the capability absent, the Stage A fallback takes the first rule
\* that matches: temperature > 110 gives the overheating diagnosis whatever
\* the vibration and voltage; otherwise vibration > 8.5 gives the
\* mechanical-imbalance diagnosis whatever the voltage; otherwise voltage <
\* 10.5 gives the battery/alternator diagnosis; (115, 9.0, 10.0) gives the
\* overheating one.
C9_FallbackDiagnosisPriority ==
    (Diagnosed /\ ~gemini_client_ready) =>
        /\ current.temp > 1100 => diagnosis = DiagOverheating
        /\ (current.temp <= 1100 /\ current.vibration > 85) => diagnosis = DiagVibration
        /\ (current.temp <= 1100 /\ current.vibration <= 85 /\ current.voltage < 105)
               => diagnosis = DiagBattery
        /\ current = Reading(1150, 90, 100) => diagnosis = DiagOverheating

\* The reading (115, 9.0, 10.0), which matches all three rules, has been
\* diagnosed by the fallback.
C9_Witness ==
    /\ Diagnosed
    /\ ~gemini_client_ready
    /\ current = Reading(1150, 90, 100)
    /\ diagnosis = DiagOverheating

ThermalCluster ==
    Dict([Root_Cause |-> "Thermal management system degradation",
          Defect_Cluster_ID |-> "CLUSTER_THERM_001",
          Design_Improvement_Suggestion |->
              "Upgrade coolant circulation pump capacity and add secondary thermal sensor redundancy"])

ElectricalCluster ==
    Dict([Root_Cause |-> "Electrical subsystem performance drift",
          Defect_Cluster_ID |-> "CLUSTER_ELEC_002",
          Design_Improvement_Suggestion |->
              "Implement higher-capacity alternator and battery with integrated voltage regulation module"])

\* C10: the Stage C fallback depends only on temperature: the thermal-cluster
\* record for every reading with temperature > 100, the electrical-cluster
\* record for every reading with temperature <= 100, all three fields from
\* the same cluster, whatever the vibration and voltage.  Stated of the
\* fallback on every generated reading, and of what Stage C returned in a run
\* without the capability.
C10_FallbackFeedbackByTemperature ==
    current # None =>
        LET expected == IF current.temp > 1000 THEN ThermalCluster ELSE ElectricalCluster
        IN  /\ mock_manufacturing_feedback(current.temp, current.vibration,
                                           current.voltage) = expected
            /\ (mfg_feedback # None /\ ~gemini_client_ready) => mfg_feedback = expected

\* Stage C has answered a reading at exactly 100.0 C, with critical
\* vibration, with the electrical-cluster record.
C10_Witness ==
    /\ mfg_feedback # None
    /\ ~gemini_client_ready
    /\ current.temp = 1000
    /\ current.vibration > 85
    /\ mfg_feedback = ElectricalCluster

Stages ==
    {"call_gemini_mechanic", "call_gemini_concierge", "call_gemini_manufacturing"}

\* The stages invoked so far in this run.
StagesCalled == {calls[i] : i \in DOMAIN calls} \cap Stages

\* C4: in every tick the three stages (diagnosis, customer message,
\* manufacturing feedback) are invoked iff the verdict of that tick's reading
\* has at least one finding: none of them when the findings are empty, all
\* three on a warning-only verdict.
C4_StagesIffFindings ==
    /\ (Classified /\ anomalies.value = << >>) => StagesCalled = {}
    /\ (pc = "render" /\ anomalies.value # << >>) => StagesCalled = Stages

\* A tick with a warning-only verdict has run all three stages.
C4_Witness ==
    /\ pc = "render"
    /\ ~is_critical.value
    /\ anomalies.value # << >>
    /\ StagesCalled = Stages

\* The healthy reading (75, 2.0, 13.2) has gone through a tick with no stage.
C4_WitnessHealthy ==
    /\ pc = "render"
    /\ current = Reading(750, 20, 132)
    /\ anomalies.value = << >>
    /\ StagesCalled = {}

PipelineOrder ==
    <<"generate_sensor_data", "check_thresholds", "call_gemini_mechanic",
      "call_gemini_concierge", "call_gemini_manufacturing">>

InPipeline(op) == op \in {PipelineOrder[i] : i \in DOMAIN PipelineOrder}

\* C5: within one anomalous tick the operations happen in the order simulate
\* reading, classify, Stage A, Stage B, Stage C, and the diagnosis passed to
\* Stage B is the Stage A output of that same tick.
C5_PipelineOrderAndFreshDiagnosis ==
    /\ \E n \in 0..Len(PipelineOrder) :
           SelectSeq(calls, InPipeline) = SubSeq(PipelineOrder, 1, n)
    /\ (pc = "render" /\ Anomalous) => SelectSeq(calls, InPipeline) = PipelineOrder
    /\ concierge_arg # None =>
           (pc # "idle" => /\ Diagnosed
                           /\ concierge_arg = diagnosis)

\* An anomalous tick that followed a tick with another diagnosis: the first
\* reading was overheating, the second gets the generic diagnosis, and that
\* one is what the Concierge received.
C5_Witness ==
    /\ pc = "render"
    /\ ~gemini_client_ready
    /\ Len(sensor_history.temperatures) = 2
    /\ sensor_history.temperatures[1] > 1100
    /\ diagnosis = DiagGeneric
    /\ concierge_arg = DiagGeneric
    /\ SelectSeq(calls, InPipeline) = PipelineOrder

\* The capability failed: the call raised, or gave no response object or an
\* empty text.
Failed(response) ==
    \/ response.kind \in {"raises", "falsy"}
    \/ response.kind = "text" /\ response.text = << >>

\* The capability gave a text that does not parse as JSON.
Unparseable(response) ==
    /\ response.kind = "text"
    /\ json_loads(clean_response_text(response.text)) = JSONDecodeError

\* C6: for each of the three stages, on any failure of the capability (not
\* configured, the call raises, the call returns an empty or unparseable
\* response) the stage returns its deterministic fallback for the given inputs.
C6_StagesFallBackOnAnyFailure ==
    /\ (Diagnosed /\ (~gemini_client_ready \/ Failed(responses.mechanic))) =>
           diagnosis = mock_mechanic_diagnosis(current.temp, current.vibration,
                                               current.voltage, anomalies.value)
    /\ (customer_msg # None /\ (~gemini_client_ready \/ Failed(responses.concierge))) =>
           customer_msg = mock_customer_message(concierge_arg, "Valued Customer")
    /\ (mfg_feedback # None
          /\ (\/ ~gemini_client_ready
              \/ Failed(responses.manufacturing)
              \/ Unparseable(responses.manufacturing))) =>
           mfg_feedback = mock_manufacturing_feedback(current.temp, current.vibration,
                                                      current.voltage)

AllRaised == \A stage \in DOMAIN responses : responses[stage].kind = "raises"

\* C7: no failure of the capability propagates past a stage: a tick in which
\* every capability call raises gives exactly the diagnosis, customer message
\* and manufacturing feedback (and the same stored session results) of the
\* tick with the capability never configured, and completes through all
\* three stages.
C7_RaisedCallsLikeNoCapability ==
    /\ (pc = "render" /\ AllRaised) =>
           LET d == call_gemini_mechanic(current.temp, current.vibration,
                                         current.voltage, anomalies.value, FALSE,
                                         Uncalled)
               m == call_gemini_concierge(d, "Valued Customer", FALSE, Uncalled)
               f == call_gemini_manufacturing(current.temp, current.vibration,
                                              current.voltage, anomalies.value,
                                              FALSE, Uncalled)
           IN  /\ diagnosis = d /\ diagnosis_result = d
               /\ customer_msg = m /\ customer_message = m
               /\ mfg_feedback = f /\ manufacturing_feedback = f
               /\ StagesCalled = Stages
    /\ (pc = "idle" /\ AllRaised) =>
           /\ uncaught = ""
           /\ StagesCalled = Stages

\* A tick with the capability configured, all three calls raising, has run to
\* its end with the overheating fallback stored.
C7_Witness ==
    /\ pc = "idle"
    /\ gemini_client_ready
    /\ AllRaised
    /\ uncaught = ""
    /\ diagnosis_result = DiagOverheating
    /\ manufacturing_feedback = ThermalCluster

FeedbackFields == {"Root_Cause", "Defect_Cluster_ID", "Design_Improvement_Suggestion"}

\* C8: for every reading and every capability outcome (absent, raises, no
\* response object, empty text, non-JSON text, JSON text that parses to
\* something other than a full record), Stage C returns a structured record
\* with all three fields root cause, defect cluster id and design improvement
\* suggestion.
C8_FeedbackHasAllFields ==
    mfg_feedback # None =>
        /\ mfg_feedback.type = "dict"
        /\ FeedbackFields \subseteq DOMAIN mfg_feedback.value

\* The Concierge used its fallback in this run.
ConciergeFellBack ==
    /\ customer_msg # None
    /\ ~gemini_client_ready \/ responses.concierge.kind \in {"raises", "falsy"}

\* Diagnosis texts a Concierge may be handed, and customer names.
DiagnosisTexts ==
    {DiagOverheating, DiagVibration, DiagBattery, DiagGeneric, Str(<< >>),
     Str(<<"Generated text.">>)}
CustomerNames == {"Valued Customer", "Asha", ""}

\* C11: the Stage B fallback names the given customer and does not vary by
\* diagnosis content: for a fixed customer name, any two diagnosis texts give
\* the identical message.  Stated of the fallback on every pair of diagnosis
\* texts, and of the message a run produced against every other diagnosis.
C11_FallbackMessageIgnoresDiagnosis ==
    /\ \A n \in CustomerNames : \A d1, d2 \in DiagnosisTexts \cup {concierge_arg} :
           (d1.type = "str" /\ d2.type = "str") =>
               /\ mock_customer_message(d1, n) = mock_customer_message(d2, n)
               /\ \E i \in DOMAIN mock_customer_message(d1, n).value :
                      mock_customer_message(d1, n).value[i] = n
    /\ ConciergeFellBack =>
           /\ concierge_arg \in DiagnosisTexts
           /\ \A d \in DiagnosisTexts :
                  customer_msg = mock_customer_message(d, "Valued Customer")
           /\ customer_msg.value[2] = "Valued Customer"

\* The fallback has answered a capability-written diagnosis with the message
\* it gives for the overheating diagnosis.
C11_Witness ==
    /\ ConciergeFellBack
    /\ gemini_client_ready
    /\ concierge_arg = Str(<<"Generated text.">>)
    /\ customer_msg = mock_customer_message(DiagOverheating, "Valued Customer")

\* Valid JSON payloads, and the two fenced forms of a payload.
Payloads == {FullDoc, PartialDoc, EmptyDoc, ListDoc}
FencedJson(d) == <<Fence, "json", "\n", d, "\n", Fence>>
FencedPlain(d) == <<Fence, "\n", d, "\n", Fence>>
\* A text without its fence markers (the markers and the json tag taken out).
IsMarker(tok) == tok \in {Fence, "json"}
IsPayloadToken(tok) == ~IsMarker(tok)
Unfenced(text) == SelectSeq(text, IsPayloadToken)
HasFence(text) == \E i \in DOMAIN text : text[i] = Fence

\* Stage C with the capability configured, on the current reading.
StageC(response) ==
    call_gemini_manufacturing(current.temp, current.vibration, current.voltage,
                              anomalies.value, TRUE, response)

\* C12: in Stage C a valid structured payload wrapped in code-fence markers
\* (fence+json ... fence, or fence ... fence) gives the same returned record
\* as the same payload sent without the markers: for every payload on every
\* reading, and for the record a run returned for a fenced response.
C12_FencedPayloadSameRecord ==
    /\ anomalies # None =>
           \A d \in Payloads :
               /\ StageC(Text(FencedJson(d))) = StageC(Text(<<d>>))
               /\ StageC(Text(FencedPlain(d))) = StageC(Text(<<d>>))
               /\ StageC(Text(FencedJson(d))) = StageC(Text(Unfenced(FencedJson(d))))
               /\ StageC(Text(<<d>>)) = json_loads(<<d>>)
    /\ (mfg_feedback # None /\ gemini_client_ready
          /\ HasFence(responses.manufacturing.text)) =>
           /\ mfg_feedback = StageC(Text(Unfenced(responses.manufacturing.text)))
           /\ mfg_feedback = json_loads(<<FullDoc>>)

\* A run has returned the payload's record for a response fenced without the
\* json tag.
C12_Witness ==
    /\ gemini_client_ready
    /\ responses.manufacturing = Text(FencedPlain(FullDoc))
    /\ mfg_feedback = json_loads(<<FullDoc>>)
    /\ manufacturing_feedback = mfg_feedback

\* Clock readings T (hours): the clock of the run, and times next to the end
\* of a day, of a week and of a year.
ClockTimes == {now, 0, 23, 24 * 6 + 23, 24 * 7, 24 * 364 + 5, 24 * 365 - 1}

\* The labels of a slot list, as the select box offers them.
SlotLabels(T) == {Str(get_available_service_slots(T)[i]) : i \in 1..5}

\* The customer-interface step of a run.
CustomerInterfaceStep == pc = "customer" /\ pc' = "manufacturing"

\* C13: get_available_service_slots evaluated at time T returns exactly 5
\* slots, the i-th the label of T + 24h * i (T+24h ... T+120h), the times
\* strictly increasing (one calendar day apart, same time of day, so the five
\* labels differ), and it has no effect on session state: the step that calls
\* it changes no session key, except selected_slot when "Book Now" is pressed,
\* which then holds one of the five labels.
C13_FiveDailySlotsNoEffect ==
    /\ [](\A T \in ClockTimes :
            LET slots == get_available_service_slots(T)
            IN  /\ Len(slots) = 5
                /\ \A i \in 1..5 :
                       /\ slots[i] = strftime(T + 24 * i)
                       /\ slots[i].IMp = T % 24
                       /\ slots[i].a = ((T \div 24) + i) % 7
                       /\ slot_time(T, i) > T
                /\ \A i \in 1..4 : slot_time(T, i) < slot_time(T, i + 1)
                /\ \A i, j \in 1..5 : i # j => slots[i] # slots[j])
    /\ [][CustomerInterfaceStep =>
              /\ UNCHANGED <<api_key, gemini_client_ready, sensor_history,
                             alert_triggered, diagnosis_result, customer_message,
                             manufacturing_feedback, overrides>>
              /\ \/ UNCHANGED selected_slot
                 \/ book_btn /\ selected_slot' \in SlotLabels(now)]_vars

\* A run has offered the slots at a clock reading past zero, and the slot of
\* the fifth day was booked.
C13_Witness ==
    /\ pc = "manufacturing"
    /\ now > 0
    /\ calls # << >> /\ calls[Len(calls)] = "get_available_service_slots"
    /\ selected_slot = Str(strftime(now + 120))

\* A reading respects the three floors (50.0 C, 0.0 G, 8.0 V).
AboveFloors(temp, vibration, voltage) ==
    temp >= 500 /\ vibration >= 0 /\ voltage >= 80

\* The value of one signal: the sum if it is above the floor, else the floor.
Floored(floor, sum, value) ==
    /\ value >= floor
    /\ sum > floor => value = sum
    /\ sum <= floor => value = floor

\* C14: for every baseline and every noise draw generate_sensor_data returns
\* max(50, base_temp + noise), max(0, base_vibration + noise) and
\* max(8, base_voltage + noise), each signal with its own draw; so every
\* reading of a tick (the current one and those kept in the history) has
\* temperature >= 50, vibration >= 0 and voltage >= 8, and equals baseline
\* plus noise wherever that sum is above the floor.
C14_ReadingsFlooredBaselinePlusNoise ==
    /\ pc = "generate" =>
           \A b \in GridBases, n \in GridNoise :
               LET r == generate_sensor_data(b.temp, b.vibration, b.voltage, n)
               IN  /\ Floored(500, b.temp + n[1], r.temp)
                   /\ Floored(0, b.vibration + n[2], r.vibration)
                   /\ Floored(80, b.voltage + n[3], r.voltage)
    /\ current # None =>
           /\ AboveFloors(current.temp, current.vibration, current.voltage)
           /\ \E b \in GridBases, n \in GridNoise :
                  /\ Floored(500, b.temp + n[1], current.temp)
                  /\ Floored(0, b.vibration + n[2], current.vibration)
                  /\ Floored(80, b.voltage + n[3], current.voltage)
    /\ \A i \in DOMAIN sensor_history.temperatures :
           AboveFloors(sensor_history.temperatures[i], sensor_history.vibrations[i],
                       sensor_history.voltages[i])

\* A reading one tenth above the temperature floor (baseline 50.0 plus a draw
\* of +0.1) with vibration and voltage on their floors has been recorded.
C14_Witness ==
    /\ current = Reading(501, 0, 80)
    /\ sensor_history.temperatures = <<501>>
    /\ sensor_history.vibrations = <<0>>
    /\ sensor_history.voltages = <<80>>

\* A stage has invoked the text-generation capability in this run.
CapabilityInvoked == \E i \in DOMAIN calls : calls[i] = "generate_content"

\* C15: after any sequence of credential edits (entering a key, replacing it,
\* clearing it) a stage invokes the capability only if the stored credential
\* is non-empty (and its probe succeeded, which is what gemini_client_ready
\* records); with the stored credential empty gemini_client_ready is false
\* and no stage invokes the capability.
C15_CapabilityOnlyWithStoredCredential ==
    /\ api_key = "" => ~gemini_client_ready
    /\ CapabilityInvoked => (api_key # "" /\ gemini_client_ready)

\* C16: with the capability absent, for every reading with findings the
\* Stage A fallback returns the generic comprehensive-scan diagnosis if and
\* only if the verdict's is_critical is false: a critical verdict never gets
\* the generic diagnosis, and a verdict with a single warning gets it.
C16_GenericDiagnosisIffNotCritical ==
    (Diagnosed /\ ~gemini_client_ready) =>
        /\ anomalies.value # << >>
        /\ diagnosis = DiagGeneric <=> ~is_critical.value
        /\ is_critical.value => diagnosis \in {DiagOverheating, DiagVibration, DiagBattery}
        /\ (Len(anomalies.value) = 1 /\ anomalies.value[1].severity = "WARNING")
               => diagnosis = DiagGeneric

\* A reading whose only finding is a voltage warning has got the generic
\* diagnosis from the fallback.
C16_Witness ==
    /\ Diagnosed
    /\ ~gemini_client_ready
    /\ Len(anomalies.value) = 1
    /\ anomalies.value[1].severity = "WARNING"
    /\ anomalies.value[1].signal = "Battery Voltage"
    /\ diagnosis = DiagGeneric

\* Both fallbacks have answered in this run.
BothFallbacksAnswered ==
    Diagnosed /\ mfg_feedback # None /\ ~gemini_client_ready

\* C17: with the capability absent, the Stage A and Stage C fallbacks agree on
\* the thermal case in every tick: the engine-overheating diagnosis comes
\* with the thermal-cluster record (CLUSTER_THERM_001), and the vibration or
\* battery diagnosis at temperature <= 100 comes with the electrical-cluster
\* record.
C17_FallbacksAgreeOnThermalCase ==
    BothFallbacksAnswered =>
        /\ diagnosis = DiagOverheating =>
               /\ mfg_feedback = ThermalCluster
               /\ mfg_feedback.value.Defect_Cluster_ID = "CLUSTER_THERM_001"
        /\ (diagnosis \in {DiagVibration, DiagBattery} /\ current.temp <= 1000) =>
               /\ mfg_feedback = ElectricalCluster
               /\ mfg_feedback.value.Defect_Cluster_ID = "CLUSTER_ELEC_002"

\* At exactly 100.0 C a low battery has got the battery diagnosis and the
\* electrical-cluster record.
C17_Witness ==
    /\ BothFallbacksAnswered
    /\ current.temp = 1000
    /\ diagnosis = DiagBattery
    /\ mfg_feedback = ElectricalCluster

\* The overheating diagnosis has come with the thermal-cluster record.
C17_WitnessOverheating ==
    /\ BothFallbacksAnswered
    /\ diagnosis = DiagOverheating
    /\ mfg_feedback = ThermalCluster

Min(a, b) == IF a <= b THEN a ELSE b

\* The reading of the t-th tick of the history specification.
HistoryReading(t) ==
    generate_sensor_data(HistorySlider(t).temp, HistorySlider(t).vibration,
                         HistorySlider(t).voltage, <<0, 0, 0>>)

\* C18: after any sequence of ticks and "Simulate Failure" clicks the four
\* series have equal length, at most 60, equal to min(60, ticks since the
\* history was last emptied), and hold exactly the most recent readings in
\* arrival order: the timestamps are those of the last ticks, oldest first,
\* and index i of every series holds the values of the tick of timestamps[i].
C18_HistoryIsRollingWindow ==
    LET n == Len(sensor_history.timestamps)
    IN  /\ Len(sensor_history.temperatures) = n
        /\ Len(sensor_history.vibrations) = n
        /\ Len(sensor_history.voltages) = n
        /\ n <= 60
        /\ n = Min(60, ticks)
        /\ \A i \in 1..n :
               /\ sensor_history.timestamps[i] = now - n + i
               /\ sensor_history.temperatures[i] =
                      HistoryReading(sensor_history.timestamps[i]).temp
               /\ sensor_history.vibrations[i] =
                      HistoryReading(sensor_history.timestamps[i]).vibration
               /\ sensor_history.voltages[i] =
                      HistoryReading(sensor_history.timestamps[i]).voltage

\* The history was emptied after the first tick and 61 ticks followed: the
\* window is full and has dropped the oldest of them.
C18_Witness ==
    /\ now = 62
    /\ ticks = 61
    /\ Len(sensor_history.timestamps) = 60
    /\ sensor_history.timestamps[1] = 3
    /\ sensor_history.temperatures[60] = HistoryReading(62).temp

\* The sidebar steps of a click on "Reset System" and on "Simulate Failure".
ResetSystemStep == SidebarRun({e \in Events : e.kind = "reset"}, MaxRuns)
SimulateFailureStep == SidebarRun({e \in Events : e.kind = "fail"}, MaxRuns)

C19_WitnessSimulateFailure ==
    /\ pc = "rerun"
    /\ runs = 1
    /\ sensor_history = EmptyHistory
    /\ diagnosis_result # None
    /\ selected_slot # None

====
